---------------------------- MODULE Spec2Model ----------------------------
(***************************************************************************)
(* Model of py2d/FOV.py (class Vision): the obstructor index kept by       *)
(* set_obstructors, the position cache of get_vision, and calculate with   *)
(* its crossing-point filter loop, angular sort, shadow-edge sweep and     *)
(* wrap-around fix-up.                                                     *)
(*                                                                         *)
(* Coordinates are exact rationals <<n, d>> (d > 0, lowest terms), so that *)
(* Vector equality, the 0.01 collinearity tolerance and the intersection   *)
(* points are computed as the code computes them.  The primitives of the   *)
(* Math module (Vector, Polygon, the intersect_* functions) are not part   *)
(* of FOV.py; they are modelled from the specification's description of    *)
(* the geometry collaborator.                                              *)
(***************************************************************************)
EXTENDS Integers, Sequences, FiniteSets

(***************************************************************************)
(* Rational arithmetic.                                                    *)
(***************************************************************************)
Abs(a) == IF a < 0 THEN -a ELSE a

RECURSIVE GCD(_, _)
GCD(a, b) == IF b = 0 THEN a ELSE GCD(b, a % b)

Rat(n, d) ==
  LET s == IF d < 0 THEN -1 ELSE 1
      g == GCD(Abs(n), Abs(d))
  IN  << (s * n) \div g, (s * d) \div g >>

RInt(n) == << n, 1 >>
RAdd(a, b) == Rat(a[1] * b[2] + b[1] * a[2], a[2] * b[2])
RSub(a, b) == Rat(a[1] * b[2] - b[1] * a[2], a[2] * b[2])
RMul(a, b) == Rat(a[1] * b[1], a[2] * b[2])
RDiv(a, b) == Rat(a[1] * b[2], a[2] * b[1])
RLt(a, b) == a[1] * b[2] < b[1] * a[2]
RLe(a, b) == a[1] * b[2] <= b[1] * a[2]
RAbs(a) == << Abs(a[1]), a[2] >>
RMin(a, b) == IF RLe(a, b) THEN a ELSE b
RMax(a, b) == IF RLe(a, b) THEN b ELSE a
RZero == RInt(0)
ROne == RInt(1)

\* Integer square root (floor); exact on perfect squares.
ISqrt(n) == CHOOSE k \in 0..n : k * k <= n /\ (k + 1) * (k + 1) > n

\* Square root of a rational; exact when numerator and denominator are squares.
RSqrt(a) == Rat(ISqrt(a[1]), ISqrt(a[2]))

(***************************************************************************)
(* Vector (Math.Vector): points are pairs of rationals.                    *)
(***************************************************************************)
Pt(x, y) == << RInt(x), RInt(y) >>
VSub(a, b) == << RSub(a[1], b[1]), RSub(a[2], b[2]) >>
VAdd(a, b) == << RAdd(a[1], b[1]), RAdd(a[2], b[2]) >>
VScale(a, k) == << RMul(a[1], k), RMul(a[2], k) >>
get_length_squared(v) == RAdd(RMul(v[1], v[1]), RMul(v[2], v[2]))
normalize(v) ==
  LET l == RSqrt(get_length_squared(v))
  IN  << RDiv(v[1], l), RDiv(v[2], l) >>

\* (b - a) x (c - a)
Cross(a, b, c) ==
  RSub(RMul(RSub(b[1], a[1]), RSub(c[2], a[2])),
       RMul(RSub(b[2], a[2]), RSub(c[1], a[1])))

(***************************************************************************)
(* Python list helpers (0-based indices, negative indices count from the   *)
(* end, list.remove deletes the first equal element).                      *)
(***************************************************************************)
PyIdx(s, k) == IF k < 0 THEN s[Len(s) + k + 1] ELSE s[k + 1]
InsertAt(s, k, x) == SubSeq(s, 1, k) \o << x >> \o SubSeq(s, k + 1, Len(s))
DeleteAt(s, k) == SubSeq(s, 1, k) \o SubSeq(s, k + 2, Len(s))
FirstIndex(s, x) == (CHOOSE j \in 1..Len(s) : s[j] = x /\ \A m \in 1..(j - 1) : s[m] # x) - 1
Range(s) == { s[k] : k \in 1..Len(s) }

RECURSIVE Concat(_)
Concat(ss) == IF ss = << >> THEN << >> ELSE Head(ss) \o Concat(Tail(ss))

\* zip(s, s[1:])
ZipNext(s) == [ k \in 1..(IF Len(s) = 0 THEN 0 ELSE Len(s) - 1) |-> << s[k], s[k + 1] >> ]


\* All pairs << a, b >>, a from s1 (outer loop), b from s2 (inner loop).
Pairs(s1, s2) ==
  [ k \in 1..(Len(s1) * Len(s2)) |->
      << s1[((k - 1) \div Len(s2)) + 1], s2[((k - 1) % Len(s2)) + 1] >> ]

(***************************************************************************)
(* Geometry primitives of the Math module.                                 *)
(***************************************************************************)
\* Line-line intersection parameters: << denominator, ua, ub >> with the
\* intersection at p1 + ua (p2 - p1) = q1 + ub (q2 - q1); parallel lines
\* (denominator 0) do not intersect.
LineDenom(p1, p2, q1, q2) ==
  RSub(RMul(RSub(q2[2], q1[2]), RSub(p2[1], p1[1])),
       RMul(RSub(q2[1], q1[1]), RSub(p2[2], p1[2])))

LineUa(p1, p2, q1, q2) ==
  RDiv(RSub(RMul(RSub(q2[1], q1[1]), RSub(p1[2], q1[2])),
            RMul(RSub(q2[2], q1[2]), RSub(p1[1], q1[1]))),
       LineDenom(p1, p2, q1, q2))

LineUb(p1, p2, q1, q2) ==
  RDiv(RSub(RMul(RSub(p2[1], p1[1]), RSub(p1[2], q1[2])),
            RMul(RSub(p2[2], p1[2]), RSub(p1[1], q1[1]))),
       LineDenom(p1, p2, q1, q2))

LinePoint(p1, p2, q1, q2) ==
  VAdd(p1, VScale(VSub(p2, p1), LineUa(p1, p2, q1, q2)))

InUnit(t) == RLe(RZero, t) /\ RLe(t, ROne)

\* Math.check_intersect_lineseg_lineseg: do the closed segments p1-p2, q1-q2 meet
check_intersect_lineseg_lineseg(p1, p2, q1, q2) ==
  /\ LineDenom(p1, p2, q1, q2) # RZero
  /\ InUnit(LineUa(p1, p2, q1, q2))
  /\ InUnit(LineUb(p1, p2, q1, q2))

SegsMeet(pr) == check_intersect_lineseg_lineseg(pr[1][1], pr[1][2], pr[2][1], pr[2][2])
SegsMeetPoint(pr) == LinePoint(pr[1][1], pr[1][2], pr[2][1], pr[2][2])

\* Math.intersect_linesegs_linesegs: the intersection point of every pair
intersect_linesegs_linesegs(segs1, segs2) ==
  LET meeting == SelectSeq(Pairs(segs1, segs2), SegsMeet)
  IN  [ k \in 1..Len(meeting) |-> SegsMeetPoint(meeting[k]) ]

\* A ray from ray_p1 through ray_p2 hits the closed segment seg strictly
\* beyond ray_p2.
RayHits(seg, ray_p1, ray_p2) ==
  /\ LineDenom(seg[1], seg[2], ray_p1, ray_p2) # RZero
  /\ InUnit(LineUa(seg[1], seg[2], ray_p1, ray_p2))
  /\ RLt(ROne, LineUb(seg[1], seg[2], ray_p1, ray_p2))

\* Math.intersect_linesegs_ray
intersect_linesegs_ray(segs, ray_p1, ray_p2) ==
  LET Hit(seg) == RayHits(seg, ray_p1, ray_p2)
      At(seg) == LinePoint(seg[1], seg[2], ray_p1, ray_p2)
      hit == SelectSeq(segs, Hit)
  IN  [ k \in 1..Len(hit) |-> At(hit[k]) ]

\* The edges of a closed polygon, the wrap edge last.
closed_edges(points) == ZipNext(points) \o << << PyIdx(points, -1), PyIdx(points, 0) >> >>

\* Math.intersect_poly_ray
intersect_poly_ray(points, ray_p1, ray_p2) ==
  intersect_linesegs_ray(closed_edges(points), ray_p1, ray_p2)

\* Math.distance_point_lineseg_squared
distance_point_lineseg_squared(p, a, b) ==
  LET d == VSub(b, a)
      l2 == get_length_squared(d)
      w == VSub(p, a)
      t == RDiv(RAdd(RMul(w[1], d[1]), RMul(w[2], d[2])), l2)
      tc == RMax(RZero, RMin(ROne, t))
  IN  IF l2 = RZero THEN get_length_squared(w)
      ELSE get_length_squared(VSub(p, VAdd(a, VScale(d, tc))))

\* The angle of v, as atan2 orders it from -pi (exclusive) to pi, in four
\* classes: below the x axis, on its positive half, above it, on its negative half.
AngleClass(v) ==
  IF RLt(v[2], RZero) THEN 0
  ELSE IF v[2] = RZero /\ RLe(RZero, v[1]) THEN 1
  ELSE IF RLt(RZero, v[2]) THEN 2
  ELSE 3

AngleLess(center, a, b) ==
  LET va == VSub(a, center)
      vb == VSub(b, center)
  IN  IF AngleClass(va) # AngleClass(vb) THEN AngleClass(va) < AngleClass(vb)
      ELSE IF AngleClass(va) \in {1, 3} THEN FALSE
      ELSE RLt(RZero, RSub(RMul(va[1], vb[2]), RMul(va[2], vb[1])))

\* The orders in which a set of points can leave a stable sort by angle: the
\* iteration order of a Python set is not fixed, so points of equal angle may
\* come out in any order.
RECURSIVE AngleOrders(_, _)
AngleOrders(S, center) ==
  IF S = {} THEN { << >> }
  ELSE LET first == { p \in S : \A q \in S : ~AngleLess(center, q, p) }
       IN  UNION { { << p >> \o t : t \in AngleOrders(S \ {p}, center) } : p \in first }

\* Stable insertion of x into an angularly sorted list: after every element
\* whose angle is not greater.
RECURSIVE SortedInsert(_, _, _)
SortedInsert(s, x, center) ==
  IF s = << >> THEN << x >>
  ELSE IF AngleLess(center, x, s[Len(s)]) THEN SortedInsert(SubSeq(s, 1, Len(s) - 1), x, center) \o << s[Len(s)] >>
  ELSE s \o << x >>

RECURSIVE SortedInsertAll(_, _, _)
SortedInsertAll(s, xs, center) ==
  IF xs = << >> THEN s
  ELSE SortedInsertAll(SortedInsert(s, Head(xs), center), Tail(xs), center)

\* Polygon.add_points then Polygon.sort_around: the possible results of sorting
\* the list (set-ordered visible points) + (crossing points) by angle.
sort_around(visible, crossing, center) ==
  { SortedInsertAll(v, crossing, center) : v \in AngleOrders(visible, center) }

(***************************************************************************)
(* Inputs of the model.                                                    *)
(***************************************************************************)
NEyes == 3

\* Eye positions one unit apart: a move of one step stays within the cache
\* tolerance, a move of two steps leaves it.
Eyes == { Pt(0, k) : k \in 0..(NEyes - 1) }

Radii == { RInt(1), RInt(20) }

Square == << Pt(-10, -10), Pt(10, -10), Pt(10, 10), Pt(-10, 10) >>

\* The square with a rectangular notch cut into its top side: it encloses every
\* eye but is not convex.
Notched ==
  << Pt(-10, -10), Pt(10, -10), Pt(10, 10), Pt(6, 10),
     Pt(6, 4), Pt(2, 4), Pt(2, 10), Pt(-10, 10) >>

\* The square listed clockwise.
Clockwise == << Pt(-10, 10), Pt(10, 10), Pt(10, -10), Pt(-10, -10) >>

Dot == << Pt(10, 10) >>

Boundaries == { Square, Clockwise, Notched, Dot, << >> }

\* The (radius, boundary) pairs of the calls.  The notched boundary is viewed
\* with the radius that covers it: a hit beyond the radius is moved onto the
\* circle along a direction of irrational length there, and the arithmetic of
\* this module is exact.
Views == { v \in Radii \X Boundaries : v[1] = RInt(20) \/ v[2] # Notched }

\* Obstructor lists: none; a one-point polyline; a polyline of two segments
\* bent towards the eye; a straight wall of two segments with two one-point
\* polylines in front of it; two walls through corners of the square with a
\* segment in front of one of them.
NoObstructors == << >>
PointScene == << << Pt(1, 0) >> >>
VeeScene == << << Pt(4, -2), Pt(3, 0), Pt(4, 2) >> >>
WallScene == << << Pt(6, -6), Pt(6, 0), Pt(6, 6) >>, << Pt(3, 1) >>, << Pt(3, 2) >> >>
CrossScene ==
  << << Pt(8, 12), Pt(12, 8) >>, << Pt(4, 5), Pt(5, 4) >>, << Pt(-12, 8), Pt(-8, 12) >> >>

ObstructorLists == { NoObstructors, PointScene, VeeScene, WallScene, CrossScene }

(***************************************************************************)
(* State.                                                                  *)
(***************************************************************************)
VARIABLES
  obs_points,       \* self.obs_points
  obs_segs,         \* self.obs_segs
  cached_vision,    \* self.cached_vision: None or << polygon points >>
  cached_position,  \* self.cached_position
  cached_radius,    \* self.cached_radius
  name_bound,       \* is the global name distance_point_lineseg_squared bound
  pc,               \* position of the call in progress
  eye, radius, boundary,          \* arguments of the get_vision in progress
  near_segs,        \* calculate's local obs_segs
  visible_points,   \* calculate's visible_points before the crossing points are added
  boundary_intersection_points,
  seg_k,            \* index of line_segment in the filter's for loop
  i,                \* the while loops' index
  poly,             \* poly.points
  op, outcome, ret, \* the call that just ended, how it ended, what it returned
  arg,              \* the argument of the set_obstructors that just ended
  pre,              \* the cache as the call in progress found it
  vision_for,       \* the inputs cached_vision was computed for
  fresh,            \* no get_vision since the last set_obstructors
  dropped,          \* the cached position that set_obstructors emptied, while fresh
  failed,           \* a computation raised since the last set_obstructors
  crossing0,        \* the crossing points as computed, before the filter
  sorted0,          \* the vertex list as sorted, before the sweep
  tags,             \* per element of poly: "v" a sorted vertex, "s" inserted by the sweep
  processed,        \* the points taken as 'current', in order
  undone            \* the points removed by Case A's undo, with their tags

object == << obs_points, obs_segs, cached_vision, cached_position, cached_radius, name_bound >>
frame == << eye, radius, boundary, near_segs, visible_points, boundary_intersection_points,
            seg_k, i, poly >>
history == << op, outcome, ret, arg, pre, vision_for, fresh, dropped, failed >>
trace == << crossing0, sorted0, tags, processed, undone >>
vars == << object, pc, frame, history, trace >>

None == << >>
Some(x) == << x >>
Val(o) == o[1]

CacheTolerance == 1

(***************************************************************************)
(* set_obstructors                                                         *)
(***************************************************************************)
\* flatten_list: reduce(lambda x,y: x+y, l), [] for an empty list
flatten_list(l) == IF l # << >> THEN Concat(l) ELSE << >>

\* A variant that pairs the points of the flattened list.
line_strips_joined(obstructors) == << ZipNext(flatten_list(obstructors)) >>

\* [ zip(strip, strip[1:]) for strip in obstructors ]
line_strips_to_segments(obstructors) ==
  [ k \in 1..Len(obstructors) |-> ZipNext(obstructors[k]) ]

Cache == [ vision |-> cached_vision, position |-> cached_position, radius |-> cached_radius,
           fresh |-> fresh, dropped |-> dropped ]

\* A variant that keeps the cache when the obstructors given are the ones held.
set_obstructors_if_changed(obstructors) ==
  LET same == flatten_list(obstructors) = obs_points
  IN  /\ pc = "idle"
      /\ obs_points' = flatten_list(obstructors)
      /\ obs_segs' = flatten_list(line_strips_to_segments(obstructors))
      /\ cached_vision' = IF same THEN cached_vision ELSE None
      /\ cached_position' = IF same THEN cached_position ELSE None
      /\ cached_radius' = IF same THEN cached_radius ELSE None
      /\ pc' = "returned"
      /\ op' = "set_obstructors"
      /\ outcome' = "done"
      /\ arg' = obstructors
      /\ pre' = Cache
      /\ vision_for' = IF same THEN vision_for ELSE None
      /\ fresh' = TRUE
      /\ dropped' = cached_position
      /\ failed' = FALSE
      /\ UNCHANGED << name_bound, frame, ret, trace >>

set_obstructors(obstructors) ==
  /\ pc = "idle"
  /\ obs_points' = flatten_list(obstructors)
  /\ obs_segs' = flatten_list(line_strips_to_segments(obstructors))
  /\ cached_vision' = None
  /\ cached_position' = None
  /\ cached_radius' = None
  /\ pc' = "returned"
  /\ op' = "set_obstructors"
  /\ outcome' = "done"
  /\ arg' = obstructors
  /\ pre' = Cache
  /\ vision_for' = None
  /\ fresh' = TRUE
  /\ dropped' = cached_position
  /\ failed' = FALSE
  /\ UNCHANGED << name_bound, frame, ret, trace >>

(***************************************************************************)
(* get_vision and the head of calculate                                    *)
(***************************************************************************)
\* A variant that also recomputes at a squared displacement of exactly 1.
needs_calculate_from_tolerance(vision, position, e) ==
  IF vision = None THEN TRUE
  ELSE RLe(RInt(CacheTolerance), get_length_squared(VSub(Val(position), e)))

\* line 55: self.cached_vision == None or (cached_position - eye).get_length_squared() > 1
needs_calculate(vision, position, e) ==
  IF vision = None THEN TRUE
  ELSE RLt(RInt(CacheTolerance), get_length_squared(VSub(Val(position), e)))

point_on_lineseg(a, b, p) ==
  LET crossproduct ==
        RSub(RMul(RSub(p[2], a[2]), RSub(b[1], a[1])),
             RMul(RSub(p[1], a[1]), RSub(b[2], a[2])))
  IN  /\ RLt(RAbs(crossproduct), Rat(1, 100))
      /\ RLe(RMin(a[1], b[1]), p[1]) /\ RLe(p[1], RMax(a[1], b[1]))
      /\ RLe(RMin(a[2], b[2]), p[2]) /\ RLe(p[2], RMax(a[2], b[2]))

sub_segment(small, big) ==
  /\ point_on_lineseg(big[1], big[2], small[1])
  /\ point_on_lineseg(big[1], big[2], small[2])

\* segment_in_obs walks self.obs_segs, not the segments filtered by radius
segment_in_obs(seg) == \E k \in 1..Len(obs_segs) : sub_segment(seg, obs_segs[k])

lineseg_in_radius(seg, e, r) ==
  RLe(distance_point_lineseg_squared(e, seg[1], seg[2]), RMul(r, r))

check_visibility(p, e, r, b, segs) ==
  /\ ~ ( /\ RLt(RMul(r, r), get_length_squared(VSub(e, p)))
         /\ p \notin Range(b) )
  /\ \A k \in 1..Len(segs) :
       check_intersect_lineseg_lineseg(e, p, segs[k][1], segs[k][2])
         => (segs[k][1] = p \/ segs[k][2] = p)

\* line 106: obs_segs = filter(lineseg_in_radius, self.obs_segs)
filter_near(e, r) ==
  LET Near(seg) == lineseg_in_radius(seg, e, r)
  IN  SelectSeq(obs_segs, Near)

\* line 109: the obstruction points and boundary points directly visible
visible_from(e, r, b, segs) ==
  { p \in Range(obs_points) \cup Range(b) : check_visibility(p, e, r, b, segs) }

\* line 104 calls distance_point_lineseg_squared by its bare name, which the
\* file's "import Math" does not bind: unless the embedding program binds it,
\* filtering a non-empty self.obs_segs raises NameError.  Line 112 indexes
\* boundary.points[-1], an IndexError on an empty boundary.
head_raises(b) ==
  \/ obs_segs # << >> /\ ~name_bound
  \/ b = << >>

\* A variant that moves the cached position to the eye of a cached answer.
get_vision_cached_following(e, r, b) ==
  /\ pc = "idle"
  /\ ~needs_calculate(cached_vision, cached_position, e)
  /\ cached_position' = Some(e)
  /\ pc' = "returned"
  /\ op' = "get_vision"
  /\ outcome' = "cached"
  /\ ret' = cached_vision
  /\ pre' = Cache
  /\ eye' = e /\ radius' = r /\ boundary' = b
  /\ fresh' = FALSE
  /\ dropped' = None
  /\ UNCHANGED << obs_points, obs_segs, cached_vision, cached_radius, name_bound,
                  near_segs, visible_points, boundary_intersection_points,
                  seg_k, i, poly, arg, vision_for, failed, trace >>

get_vision_cached(e, r, b) ==
  /\ pc = "idle"
  /\ ~needs_calculate(cached_vision, cached_position, e)
  /\ pc' = "returned"
  /\ op' = "get_vision"
  /\ outcome' = "cached"
  /\ ret' = cached_vision
  /\ pre' = Cache
  /\ eye' = e /\ radius' = r /\ boundary' = b
  /\ fresh' = FALSE
  /\ dropped' = None
  /\ UNCHANGED << object, near_segs, visible_points, boundary_intersection_points,
                  seg_k, i, poly, arg, vision_for, failed, trace >>

get_vision_raise(e, r, b) ==
  /\ pc = "idle"
  /\ needs_calculate(cached_vision, cached_position, e)
  /\ cached_radius' = Some(r)
  /\ cached_position' = Some(e)
  /\ head_raises(b)
  /\ pc' = "returned"
  /\ op' = "get_vision"
  /\ outcome' = "raised"
  /\ pre' = Cache
  /\ eye' = e /\ radius' = r /\ boundary' = b
  /\ fresh' = FALSE
  /\ dropped' = None
  /\ failed' = TRUE
  /\ UNCHANGED << obs_points, obs_segs, cached_vision, name_bound, near_segs,
                  visible_points, boundary_intersection_points, seg_k, i, poly,
                  ret, arg, vision_for, trace >>

get_vision_calculate(e, r, b) ==
  /\ pc = "idle"
  /\ needs_calculate(cached_vision, cached_position, e)
  /\ cached_radius' = Some(r)
  /\ cached_position' = Some(e)
  /\ ~head_raises(b)
  /\ near_segs' = filter_near(e, r)
  /\ visible_points' = visible_from(e, r, b, near_segs')
  /\ boundary_intersection_points' = intersect_linesegs_linesegs(near_segs', closed_edges(b))
  /\ crossing0' = boundary_intersection_points'
  /\ seg_k' = 0
  /\ i' = 0
  /\ pc' = "filter"
  /\ op' = "get_vision"
  /\ outcome' = "running"
  /\ pre' = Cache
  /\ eye' = e /\ radius' = r /\ boundary' = b
  /\ fresh' = FALSE
  /\ dropped' = None
  /\ UNCHANGED << obs_points, obs_segs, cached_vision, name_bound, poly, ret, arg,
                  vision_for, failed, sorted0, tags, processed, undone >>

(***************************************************************************)
(* calculate: the filter of the crossing points (lines 119-128)            *)
(***************************************************************************)
line_segment == PyIdx(near_segs, seg_k)

\* line 125: p is not on line_segment and the sight line eye-p meets it
occluded_by(p, seg, e) ==
  /\ ~point_on_lineseg(seg[1], seg[2], p)
  /\ check_intersect_lineseg_lineseg(e, p, seg[1], seg[2])

\* list.remove(p)
list_remove(l, p) == DeleteAt(l, FirstIndex(l, p))

\* line 128: i += 1
filter_advance(k) == k + 1

\* A variant that steps to the next index after a removal as well.
filter_remove_advancing ==
  /\ pc = "filter"
  /\ seg_k < Len(near_segs)
  /\ i < Len(boundary_intersection_points)
  /\ occluded_by(PyIdx(boundary_intersection_points, i), line_segment, eye)
  /\ boundary_intersection_points' =
       list_remove(boundary_intersection_points, PyIdx(boundary_intersection_points, i))
  /\ i' = filter_advance(i)
  /\ UNCHANGED << object, pc, eye, radius, boundary, near_segs, visible_points, seg_k,
                  poly, history, trace >>

filter_remove ==
  /\ pc = "filter"
  /\ seg_k < Len(near_segs)
  /\ i < Len(boundary_intersection_points)
  /\ occluded_by(PyIdx(boundary_intersection_points, i), line_segment, eye)
  /\ boundary_intersection_points' =
       list_remove(boundary_intersection_points, PyIdx(boundary_intersection_points, i))
  /\ UNCHANGED << object, pc, eye, radius, boundary, near_segs, visible_points, seg_k, i,
                  poly, history, trace >>

filter_keep ==
  /\ pc = "filter"
  /\ seg_k < Len(near_segs)
  /\ i < Len(boundary_intersection_points)
  /\ ~occluded_by(PyIdx(boundary_intersection_points, i), line_segment, eye)
  /\ i' = filter_advance(i)
  /\ UNCHANGED << object, pc, eye, radius, boundary, near_segs, visible_points,
                  boundary_intersection_points, seg_k, poly, history, trace >>

filter_next_segment ==
  /\ pc = "filter"
  /\ seg_k < Len(near_segs)
  /\ i >= Len(boundary_intersection_points)
  /\ seg_k' = seg_k + 1
  /\ i' = 0
  /\ UNCHANGED << object, pc, eye, radius, boundary, near_segs, visible_points,
                  boundary_intersection_points, poly, history, trace >>

\* lines 130-136: visible_points += boundary_intersection_points, sort, i = 0
sort_vertices ==
  /\ pc = "filter"
  /\ seg_k >= Len(near_segs)
  /\ \E sorted \in sort_around(visible_points, boundary_intersection_points, eye) :
       /\ poly' = sorted
       /\ sorted0' = sorted
       /\ tags' = [ k \in 1..Len(sorted) |-> "v" ]
  /\ i' = 0
  /\ pc' = "sweep"
  /\ processed' = << >>
  /\ undone' = << >>
  /\ UNCHANGED << object, eye, radius, boundary, near_segs, visible_points,
                  boundary_intersection_points, seg_k, history, crossing0 >>

(***************************************************************************)
(* calculate: the sweep (lines 136-182)                                    *)
(***************************************************************************)
prev_point == PyIdx(poly, i - 1)
current == PyIdx(poly, i)
next_point == PyIdx(poly, (i + 1) % Len(poly))

\* line 143
intersections ==
  intersect_linesegs_ray(near_segs, eye, current) \o intersect_poly_ray(boundary, eye, current)

\* closest_points(points, reference)[0]: the first point of least distance
closest_point(points, reference) ==
  LET D(k) == get_length_squared(VSub(points[k], reference))
  IN  points[CHOOSE j \in 1..Len(points) :
               /\ \A m \in 1..Len(points) : RLe(D(j), D(m))
               /\ \A m \in 1..(j - 1) : RLt(D(j), D(m))]

\* lines 151-152: a hit beyond the radius is moved onto the circle
clamp_to_radius(q, e, r) ==
  IF RLt(RMul(r, r), get_length_squared(VSub(e, q)))
  THEN VAdd(VScale(normalize(VSub(q, e)), r), e)
  ELSE q

closest_intersection == clamp_to_radius(closest_point(intersections, eye), eye, radius)

sio_pc == segment_in_obs(<< prev_point, current >>)
sio_cn == segment_in_obs(<< current, next_point >>)

\* lines 159-160: the list after Case A's insert; i is then i + 1
case_a_inserted == InsertAt(poly, i, closest_intersection)

\* line 165, evaluated with i already incremented
undo_needed ==
  segment_in_obs(<< PyIdx(case_a_inserted, (i + 1) - 3), PyIdx(case_a_inserted, (i + 1) - 1) >>)

\* line 167: the point poly.points.remove takes out, and where it finds it
undo_value == PyIdx(case_a_inserted, (i + 1) - 2)
undo_index == FirstIndex(case_a_inserted, undo_value)

\* the index after each branch (the branch's own i += 1 / i -= 1, then line 180)
index_after_no_insert(k) == k + 1
index_after_case_a(k) == (k + 1) + 1
\* A variant that backs up by two after the undo.
index_after_undo_twice(k) == ((k + 1) - 2) + 1

index_after_undo(k) == ((k + 1) - 1) + 1
index_after_case_b(k) == (k + 1) + 1

sweep_no_intersection ==
  /\ pc = "sweep"
  /\ i < Len(poly)
  /\ intersections = << >>
  /\ i' = index_after_no_insert(i)
  /\ processed' = Append(processed, current)
  /\ UNCHANGED << object, pc, eye, radius, boundary, near_segs, visible_points,
                  boundary_intersection_points, seg_k, poly, history, crossing0,
                  sorted0, tags, undone >>

sweep_case_a ==
  /\ pc = "sweep"
  /\ i < Len(poly)
  /\ intersections # << >>
  /\ ~sio_pc
  /\ ~undo_needed
  /\ poly' = case_a_inserted
  /\ tags' = InsertAt(tags, i, "s")
  /\ i' = index_after_case_a(i)
  /\ processed' = Append(processed, current)
  /\ UNCHANGED << object, pc, eye, radius, boundary, near_segs, visible_points,
                  boundary_intersection_points, seg_k, history, crossing0, sorted0,
                  undone >>

sweep_case_a_undo ==
  /\ pc = "sweep"
  /\ i < Len(poly)
  /\ intersections # << >>
  /\ ~sio_pc
  /\ undo_needed
  /\ poly' = DeleteAt(case_a_inserted, undo_index)
  /\ tags' = DeleteAt(InsertAt(tags, i, "s"), undo_index)
  /\ undone' = Append(undone, << undo_value, InsertAt(tags, i, "s")[undo_index + 1], i >>)
  /\ i' = index_after_undo(i)
  /\ processed' = Append(processed, current)
  /\ UNCHANGED << object, pc, eye, radius, boundary, near_segs, visible_points,
                  boundary_intersection_points, seg_k, history, crossing0, sorted0 >>

sweep_case_b ==
  /\ pc = "sweep"
  /\ i < Len(poly)
  /\ intersections # << >>
  /\ sio_pc
  /\ ~sio_cn
  /\ poly' = InsertAt(poly, i + 1, closest_intersection)
  /\ tags' = InsertAt(tags, i + 1, "s")
  /\ i' = index_after_case_b(i)
  /\ processed' = Append(processed, current)
  /\ UNCHANGED << object, pc, eye, radius, boundary, near_segs, visible_points,
                  boundary_intersection_points, seg_k, history, crossing0, sorted0,
                  undone >>

sweep_case_c ==
  /\ pc = "sweep"
  /\ i < Len(poly)
  /\ intersections # << >>
  /\ sio_pc
  /\ sio_cn
  /\ i' = index_after_no_insert(i)
  /\ processed' = Append(processed, current)
  /\ UNCHANGED << object, pc, eye, radius, boundary, near_segs, visible_points,
                  boundary_intersection_points, seg_k, poly, history, crossing0,
                  sorted0, tags, undone >>

(***************************************************************************)
(* calculate: the wrap-around fix-up and the store (lines 185-192), and    *)
(* get_vision's return (line 58)                                           *)
(***************************************************************************)
SwapFirstTwo(l) == << l[2], l[1] >> \o SubSeq(l, 3, Len(l))

\* line 186 indexes poly.points[-1] and poly.points[1]
finish_raise ==
  /\ pc = "sweep"
  /\ i >= Len(poly)
  /\ Len(poly) < 2
  /\ pc' = "returned"
  /\ outcome' = "raised"
  /\ failed' = TRUE
  /\ UNCHANGED << object, frame, op, ret, arg, pre, vision_for, fresh, dropped, trace >>

\* A variant with the test of line 186 inverted.
wrap_swap_inverted == ~segment_in_obs(<< PyIdx(poly, -1), PyIdx(poly, 1) >>)

\* line 186: if segment_in_obs(poly.points[-1], poly.points[1])
wrap_swap_needed == segment_in_obs(<< PyIdx(poly, -1), PyIdx(poly, 1) >>)

finish ==
  /\ pc = "sweep"
  /\ i >= Len(poly)
  /\ Len(poly) >= 2
  /\ poly' = IF wrap_swap_needed THEN SwapFirstTwo(poly) ELSE poly
  /\ tags' = IF wrap_swap_needed THEN SwapFirstTwo(tags) ELSE tags
  /\ cached_vision' = Some(poly')
  /\ ret' = cached_vision'
  /\ vision_for' = Some([ eye |-> eye, radius |-> radius, boundary |-> boundary,
                          obs_points |-> obs_points, obs_segs |-> obs_segs ])
  /\ pc' = "returned"
  /\ outcome' = "computed"
  /\ UNCHANGED << obs_points, obs_segs, cached_position, cached_radius, name_bound,
                  eye, radius, boundary, near_segs, visible_points,
                  boundary_intersection_points, seg_k, i, op, arg, pre, fresh, dropped, failed,
                  crossing0, sorted0, processed, undone >>

NoFrame ==
  /\ eye = None /\ radius = None /\ boundary = None
  /\ near_segs = None /\ visible_points = {} /\ boundary_intersection_points = None
  /\ seg_k = 0 /\ i = 0 /\ poly = None
  /\ op = "none" /\ outcome = "none" /\ ret = None /\ arg = None /\ pre = None
  /\ crossing0 = None /\ sorted0 = None /\ tags = None /\ processed = None
  /\ undone = None

\* the caller takes the result (or the exception) and the object is idle again
return ==
  /\ pc = "returned"
  /\ pc' = "idle"
  /\ eye' = None /\ radius' = None /\ boundary' = None
  /\ near_segs' = None /\ visible_points' = {} /\ boundary_intersection_points' = None
  /\ seg_k' = 0 /\ i' = 0 /\ poly' = None
  /\ op' = "none" /\ outcome' = "none" /\ ret' = None /\ arg' = None /\ pre' = None
  /\ crossing0' = None /\ sorted0' = None /\ tags' = None /\ processed' = None
  /\ undone' = None
  /\ UNCHANGED << object, vision_for, fresh, dropped, failed >>

(***************************************************************************)
(* Specification                                                           *)
(***************************************************************************)
\* __init__: set_obstructors(obstructors)
Init ==
  /\ \E obstructors \in ObstructorLists :
       /\ obs_points = flatten_list(obstructors)
       /\ obs_segs = flatten_list(line_strips_to_segments(obstructors))
  /\ cached_vision = None
  /\ cached_position = None
  /\ cached_radius = None
  /\ name_bound \in BOOLEAN
  /\ pc = "idle"
  /\ NoFrame
  /\ vision_for = None
  /\ fresh = TRUE
  /\ dropped = None
  /\ failed = FALSE

Next ==
  \/ \E obstructors \in ObstructorLists : set_obstructors(obstructors)
  \/ \E e \in Eyes, v \in Views : get_vision_cached(e, v[1], v[2])
  \/ \E e \in Eyes, v \in Views : get_vision_raise(e, v[1], v[2])
  \/ \E e \in Eyes, v \in Views : get_vision_calculate(e, v[1], v[2])
  \/ filter_remove
  \/ filter_keep
  \/ filter_next_segment
  \/ sort_vertices
  \/ sweep_no_intersection
  \/ sweep_case_a
  \/ sweep_case_a_undo
  \/ sweep_case_b
  \/ sweep_case_c
  \/ finish_raise
  \/ finish
  \/ return

Spec == Init /\ [][Next]_vars

(***************************************************************************)
(* The calls that ended, as the properties below read them                 *)
(***************************************************************************)
Returned(o) == pc = "returned" /\ op = o

\* the squared distance between two points
Dist2(p, q) == get_length_squared(VSub(p, q))

\* the boundary b encloses e (crossing number): CrossesRight holds when the
\* edge a-c crosses the horizontal half-line that starts at e
CrossesRight(a, c, e) ==
  /\ RLt(e[2], a[2]) # RLt(e[2], c[2])
  /\ RLt(e[1], RAdd(a[1], RDiv(RMul(RSub(e[2], a[2]), RSub(c[1], a[1])),
                               RSub(c[2], a[2]))))

Encloses(b, e) ==
  Cardinality({ k \in 1..Len(b) : CrossesRight(b[k], b[(k % Len(b)) + 1], e) }) % 2 = 1

(***************************************************************************)
(* C5: for every list of polylines given to set_obstructors, obs_segs      *)
(* holds exactly the pairs of consecutive points within each polyline: a   *)
(* polyline of m >= 2 points gives m - 1 segments, a shorter one gives     *)
(* none and only its points to obs_points, and no segment joins the last   *)
(* point of a polyline to its first point or to a point of another one.    *)
(***************************************************************************)
ConsecutivePairs(strips) ==
  UNION { { << strips[s][k], strips[s][k + 1] >> : k \in 1..(Len(strips[s]) - 1) } :
          s \in 1..Len(strips) }

RECURSIVE SegmentCount(_)
SegmentCount(strips) ==
  IF strips = << >> THEN 0
  ELSE (IF Len(Head(strips)) >= 2 THEN Len(Head(strips)) - 1 ELSE 0)
       + SegmentCount(Tail(strips))

RECURSIVE PointCount(_)
PointCount(strips) ==
  IF strips = << >> THEN 0 ELSE Len(Head(strips)) + PointCount(Tail(strips))

C5_ConsecutivePairsOnly ==
  Returned("set_obstructors") =>
    /\ Range(obs_segs) = ConsecutivePairs(arg)
    /\ Len(obs_segs) = SegmentCount(arg)
    /\ Range(obs_points) = UNION { Range(arg[s]) : s \in 1..Len(arg) }
    /\ Len(obs_points) = PointCount(arg)
    /\ \A s \in 1..Len(arg) :
         Len(arg[s]) >= 2 =>
           << arg[s][Len(arg[s])], arg[s][1] >> \notin Range(obs_segs)
    /\ \A s \in 1..Len(arg), t \in 1..Len(arg) :
         (s # t /\ arg[s] # << >>) =>
           \A q \in Range(arg[t]) :
             << arg[s][Len(arg[s])], q >> \notin Range(obs_segs)

\* a list with a polyline of three points and two polylines of one point
C5_Witness ==
  /\ Returned("set_obstructors")
  /\ arg = WallScene
  /\ Len(obs_segs) = 2
  /\ Len(obs_points) = 5

(***************************************************************************)
(* C1: when a polygon is cached and the squared displacement between eye   *)
(* and the cached position is at most 1, get_vision returns the cached     *)
(* polygon unchanged without running calculate, whatever radius and        *)
(* boundary are passed; when the displacement is greater than 1 or no      *)
(* polygon is cached, it runs calculate, the cached position becomes eye,  *)
(* and the polygon it returns is the one computed for that eye.            *)
(***************************************************************************)
C1_CacheStaleness ==
  Returned("get_vision") =>
    IF pre.vision # None /\ RLe(Dist2(Val(pre.position), eye), RInt(1))
    THEN /\ outcome = "cached"
         /\ ret = pre.vision
         /\ cached_vision = pre.vision
         /\ cached_position = pre.position
         /\ cached_radius = pre.radius
    ELSE /\ outcome \in { "computed", "raised" }
         /\ cached_position = Some(eye)
         /\ outcome = "computed" =>
              /\ ret # None
              /\ ret = cached_vision
              /\ Val(vision_for).eye = eye

\* a cached answer after a move of exactly the tolerance, with another radius
\* and another boundary than the ones of the computation
C1_Witness ==
  /\ Returned("get_vision")
  /\ outcome = "cached"
  /\ Dist2(Val(pre.position), eye) = RInt(1)
  /\ radius # Val(pre.radius)
  /\ boundary # Val(vision_for).boundary
  /\ ret = pre.vision

(***************************************************************************)
(* C2: after any set_obstructors the cached polygon, position and radius   *)
(* are empty, and the get_vision that follows runs the computation against *)
(* the new obstructors, also when its eye is the eye of the computation    *)
(* whose result set_obstructors emptied.                                   *)
(***************************************************************************)
C2_Invalidation ==
  /\ Returned("set_obstructors") =>
       /\ cached_vision = None
       /\ cached_position = None
       /\ cached_radius = None
  /\ (Returned("get_vision") /\ pre.fresh) =>
       /\ outcome \in { "computed", "raised" }
       /\ outcome = "computed" =>
            /\ ret = cached_vision
            /\ Val(vision_for).obs_points = obs_points
            /\ Val(vision_for).obs_segs = obs_segs

\* the first get_vision after a set_obstructors that emptied a cache entry of
\* the same eye and changed the obstructors
C2_Witness ==
  /\ Returned("get_vision")
  /\ pre.fresh
  /\ pre.dropped = Some(eye)
  /\ outcome = "computed"
  /\ obs_points # << >>

(***************************************************************************)
(* C9: as long as every computation succeeds, each get_vision(eye, ...)    *)
(* returns a polygon that was computed for a position whose squared        *)
(* distance to eye is at most 1; the cached position is the position the   *)
(* cached polygon was computed for and a cached answer leaves it alone, so *)
(* a series of small moves cannot carry the eye farther than the tolerance *)
(* from the position the returned polygon was computed for.                *)
(***************************************************************************)
C9_NoDrift ==
  ~failed =>
    /\ (pc \in { "idle", "returned" } /\ cached_vision # None) =>
         Val(vision_for).eye = Val(cached_position)
    /\ (Returned("get_vision") /\ outcome \in { "cached", "computed" }) =>
         /\ ret # None
         /\ RLe(Dist2(Val(vision_for).eye, eye), RInt(1))
    /\ (Returned("get_vision") /\ outcome = "cached") =>
         cached_position = pre.position

\* a recomputation two units from the cached position, and a cached answer one
\* unit from it
C9_Witness ==
  /\ Returned("get_vision")
  /\ ~failed
  /\ outcome = "cached"
  /\ eye = Pt(0, 2)
  /\ Val(cached_position) = Pt(0, 1)
  /\ Val(vision_for).eye = Pt(0, 1)

(***************************************************************************)
(* C10: between calls, a cached polygon is the one computed for the cached *)
(* position and the cached radius with the current obstructors; when       *)
(* calculate raises, the cache entry is left as it was before the call, so *)
(* a later get_vision near the failed eye does not return the polygon of   *)
(* the older position.                                                     *)
(***************************************************************************)
C10_CacheEntryConsistent ==
  /\ (pc \in { "idle", "returned" } /\ cached_vision # None) =>
       /\ Val(vision_for).eye = Val(cached_position)
       /\ Val(vision_for).radius = Val(cached_radius)
       /\ Val(vision_for).obs_points = obs_points
       /\ Val(vision_for).obs_segs = obs_segs
  /\ (Returned("get_vision") /\ outcome = "raised" /\ pre.vision # None) =>
       /\ cached_vision = pre.vision
       /\ cached_position = pre.position
       /\ cached_radius = pre.radius
  /\ (Returned("get_vision") /\ outcome = "cached") =>
       RLe(Dist2(Val(vision_for).eye, eye), RInt(1))

(***************************************************************************)
(* C8: when the filter loop over the near segments has finished, the       *)
(* surviving boundary-intersection points are exactly the computed         *)
(* crossing points p for which no near segment S has both 'p does not lie  *)
(* on S' and 'the line eye -> p intersects S', in their order and with     *)
(* their multiplicity: removing while walking neither skips a point nor    *)
(* drops one that is not occluded, also when a crossing point occurs more  *)
(* than once.                                                              *)
(***************************************************************************)
FilterDone == (pc = "filter" /\ seg_k >= Len(near_segs)) \/ pc = "sweep"

NotOccluded(p) ==
  ~ \E k \in 1..Len(near_segs) :
      /\ ~point_on_lineseg(near_segs[k][1], near_segs[k][2], p)
      /\ check_intersect_lineseg_lineseg(eye, p, near_segs[k][1], near_segs[k][2])

C8_FilterExact ==
  FilterDone => boundary_intersection_points = SelectSeq(crossing0, NotOccluded)

\* a crossing point that occurs twice is removed twice, another one is kept
C8_Witness ==
  /\ FilterDone
  /\ \E j \in 1..Len(crossing0), k \in 1..Len(crossing0) :
       /\ j # k
       /\ crossing0[j] = crossing0[k]
       /\ crossing0[j] \notin Range(boundary_intersection_points)
  /\ boundary_intersection_points # << >>

(***************************************************************************)
(* C6: the sweep terminates: len(points) - i decreases in every iteration  *)
(* (Case A with or without the undo, Case B, Case C, no intersection), at  *)
(* most one point is inserted per iteration, and the loop body runs at     *)
(* most n times for a sorted list of n vertices.                           *)
(***************************************************************************)
SweepIteration == pc = "sweep" /\ pc' = "sweep"

C6_SweepTerminates ==
  /\ [] (pc = "sweep" => (Len(processed) <= Len(sorted0) /\ i <= Len(poly) + 1))
  /\ [][ SweepIteration =>
           /\ Len(poly') - i' < Len(poly) - i
           /\ Len(poly') <= Len(poly) + 1
           /\ Len(processed') = Len(processed) + 1 ]_vars

\* the loop has ended after iterations that inserted before and after
\* 'current' and one that undid an insert
C6_Witness ==
  /\ pc = "sweep"
  /\ i >= Len(poly)
  /\ undone # << >>
  /\ Len(poly) > Len(sorted0)
  /\ Len(processed) = Len(sorted0)

(***************************************************************************)
(* C7: Case A's undo removes only a point that the sweep inserted on an    *)
(* earlier iteration, never a vertex of the sorted list; every vertex of   *)
(* the sorted list is taken as 'current' exactly once and is still present *)
(* in the returned polygon, also at i = 0 and i = 1.  Stated for the       *)
(* boundaries that enclose eye.                                            *)
(***************************************************************************)
Count(l, x) == Cardinality({ k \in 1..Len(l) : l[k] = x })

InSweep == pc = "sweep" \/ (Returned("get_vision") /\ outcome = "computed")

SweepDone == (pc = "sweep" /\ i >= Len(poly)) \/ (Returned("get_vision") /\ outcome = "computed")

C4_NoEqualNeighbours ==
  (/\ Returned("get_vision")
   /\ outcome = "computed"
   /\ RLt(RZero, radius)
   /\ Encloses(boundary, eye)) =>
     \A k \in 1..Len(poly) : poly[k] # poly[(k % Len(poly)) + 1]

(***************************************************************************)
(* C3, as stated: with no obstructors and a boundary that encloses eye,    *)
(* calculate returns exactly the boundary's vertices, each once, in the    *)
(* boundary's own order up to rotation, with no point inserted.            *)
(***************************************************************************)
IsRotation(l, b) ==
  /\ Len(l) = Len(b)
  /\ \E r \in 0..(Len(b) - 1) :
       \A k \in 1..Len(b) : l[k] = b[((k - 1 + r) % Len(b)) + 1]

NoObstructorCall ==
  /\ Returned("get_vision")
  /\ outcome = "computed"
  /\ obs_points = << >>

C3_BoundaryItself ==
  (NoObstructorCall /\ Encloses(boundary, eye)) => IsRotation(poly, boundary)

(***************************************************************************)
(* C3, amended: with no obstructors and a convex boundary that is listed   *)
(* counter-clockwise and has eye strictly inside, calculate returns        *)
(* exactly the boundary's vertices, each once, in ascending angular order  *)
(* around eye, which is the boundary's own order up to rotation, with no   *)
(* point inserted by the sweep.                                            *)
(***************************************************************************)
CyclicAt(b, k) == b[((k - 1) % Len(b)) + 1]

\* every turn of b is a left turn and e is to the left of every edge
ConvexAround(b, e) ==
  /\ Len(b) >= 3
  /\ \A k \in 1..Len(b) :
       /\ RLt(RZero, Cross(CyclicAt(b, k), CyclicAt(b, k + 1), CyclicAt(b, k + 2)))
       /\ RLt(RZero, Cross(CyclicAt(b, k), CyclicAt(b, k + 1), e))

C3_ConvexBoundaryItself ==
  (NoObstructorCall /\ ConvexAround(boundary, eye)) =>
    /\ IsRotation(poly, boundary)
    /\ \A k \in 1..(Len(poly) - 1) : AngleLess(eye, poly[k], poly[k + 1])
    /\ \A k \in 1..Len(tags) : tags[k] = "v"

\* the square seen from (0,1) with radius 1: the four corners, from the one of
\* least angle on
C3_Witness ==
  /\ NoObstructorCall
  /\ boundary = Square
  /\ eye = Pt(0, 1)
  /\ radius = RInt(1)
  /\ poly = << Pt(-10, -10), Pt(10, -10), Pt(10, 10), Pt(-10, 10) >>

=============================================================================
